---- MODULE Spec2Model ----
(***************************************************************************)
(* benchpmc: the gated launch of a target process (runner/exec.rs), one    *)
(* benchmark iteration (Runner::run, runner/mod.rs) and the caller's loop  *)
(* of iterations (main.rs), as a state machine of the parent process, the  *)
(* forked child and a set of Counters whose operations may fail.           *)
(***************************************************************************)
EXTENDS Integers, Sequences, FiniteSets, TLC

\* ------------------------------------------------------------------ bounds
\* Number of counters handed to Runner::run.
NumCounters == 2
\* Number of Runner::run calls made by the caller.
MaxIter == 2

\* ------------------------------------------------------- program constants
\* exec.rs:11
BAD_EXEC == 42

\* Exit codes the executed target may return (a sample of 0..255 holding
\* 0, small codes, BAD_EXEC and its neighbours).
ExitCodes == {0, 1, 2, 41, 42, 43}
\* The process id fork hands to the parent at the k-th launch: the kernel
\* allocates them in sequence, here across the one-digit boundary.
ForkPid(k) == 8 + k
\* Descriptors open in the parent before the first launch.
StdFds == {0, 1, 2}
FdSpace == 0..(2 + 2 * (MaxIter + 1))

Counters == 1..NumCounters

\* ------------------------------------------------------------ Option, Result
None == <<>>
Some(x) == <<x>>
IsSome(o) == o # None
Unwrap(o) == o[1]

\* error.rs: Error::ExecError(String); a Counter's own error carries the
\* counter and the operation that failed (Error::PmcError / Error::MockError).
ExecError(m) == [kind |-> "ExecError", msg |-> m, ctr |-> 0]
CounterError(i, o) == [kind |-> "CounterError", msg |-> o, ctr |-> i]
OkUnit == [kind |-> "Ok", msg |-> "", ctr |-> 0]
Panic == [kind |-> "Panic", msg |-> "", ctr |-> 0]
NoResult == [kind |-> "NoResult", msg |-> "", ctr |-> 0]

\* impl From<NulError> for Error
FromNulError == ExecError("input contained unexpected null character")

\* --------------------------------------------------------------- Child::pid
\* Characters are their ASCII codes: '0' is 48, '-' is 45.
Ascii0 == 48
AsciiMinus == 45

\* format!("{}", pid): the decimal digits of a process id, most significant
\* first, with a leading '-' for a negative id.
\* A formatter that emits the least significant digit first.
RECURSIVE FormatNatReversed(_)
FormatNatReversed(n) ==
    IF n < 10 THEN <<Ascii0 + n>>
    ELSE <<Ascii0 + (n % 10)>> \o FormatNatReversed(n \div 10)

RECURSIVE FormatNat(_)
FormatNat(n) ==
    IF n < 10 THEN <<Ascii0 + n>>
    ELSE Append(FormatNat(n \div 10), Ascii0 + (n % 10))

FormatPid(p) == IF p < 0 THEN <<AsciiMinus>> \o FormatNat(0 - p) ELSE FormatNat(p)

\* str::parse::<u32>: None (an Err) on an empty string or a non-digit.
RECURSIVE ParseDigits(_, _)
ParseDigits(s, acc) ==
    IF s = <<>> THEN Some(acc)
    ELSE IF Head(s) < Ascii0 \/ Head(s) > Ascii0 + 9 THEN None
    ELSE ParseDigits(Tail(s), acc * 10 + (Head(s) - Ascii0))

ParseU32(s) == IF s = <<>> THEN None ELSE ParseDigits(s, 0)

\* Child::pid: self.pid.map(|pid| format!("{}", pid).parse::<u32>().unwrap())
ChildPid(p) == IF p = None THEN None ELSE Some(Unwrap(ParseU32(FormatPid(Unwrap(p)))))

\* --------------------------------------------------------------- Child::run
Exited(c) == [tag |-> "Exited", code |-> c]
Signaled == [tag |-> "Signaled", code |-> 0]
WaitErr == [tag |-> "Err", code |-> 0]
NotWaited == [tag |-> "NotWaited", code |-> 0]

\* The match on waitpid's result in Child::run.
WaitResult(ws) ==
    IF ws.tag = "Exited" /\ ws.code = BAD_EXEC THEN None
    ELSE IF ws.tag = "Exited" THEN Some(ws.code)
    ELSE None

\* An exit policy whose failure carries the exit code.
ExitPolicyWithCode(r) ==
    IF r = Some(0) THEN OkUnit
    ELSE IF IsSome(r)
         THEN [kind |-> "ExecError", msg |-> "non-zero exit status", ctr |-> Unwrap(r)]
         ELSE ExecError("failed to exec")

\* The match on child.run() in Runner::run, before map_err and `?`.
ExitPolicy(r) ==
    IF r = Some(0) THEN OkUnit
    ELSE IF IsSome(r) THEN ExecError("non-zero exit status")
    ELSE ExecError("failed to exec")

\* socketpair: the two lowest descriptors not open in the process.
LowestFree(open) == CHOOSE f \in FdSpace \ open : \A g \in FdSpace \ open : f <= g

\* ------------------------------------------------------ the counter wrappers
\* Bounds of the wrapper specifications.
\* The relatives of the RelativePrinter.
NumRelatives == 2
\* Observations an RSDPrinter takes.
MaxObs == 5
\* Width of the unsigned word standing for u64.
WordBits == 7

\* RSDPrinter 1 is RelativePrinter.absolute, the others are its relatives.
NumAggs == 1 + NumRelatives
Aggs == 1..NumAggs

RECURSIVE Pow2(_)
Pow2(n) == IF n = 0 THEN 1 ELSE 2 * Pow2(n - 1)

\* u64::MAX + 1
WordMod == Pow2(WordBits)

\* Magnitudes the wrapped counter hands back from set.
ObsValues == {0, 10, 20, 30, 40, WordMod - 1}
\* Arguments a caller passes to set.
SetArgs == {0, 7}

\* Result<_, Error> of a Counter operation: Ok(()) is OkVal(0).
OkVal(v) == [kind |-> "Ok", val |-> v, src |-> 0]
ErrVal(a) == [kind |-> "Err", val |-> 0, src |-> a]
NoOp == [op |-> "none", on |-> "none", arg |-> 0, res |-> OkVal(0)]

\* What the wrapped counter of an RSDPrinter answers when called.
Outcomes(op) ==
    IF op = "set"
    THEN {[ok |-> TRUE, ret |-> m] : m \in ObsValues} \cup {[ok |-> FALSE, ret |-> 0]}
    ELSE {[ok |-> TRUE, ret |-> 0], [ok |-> FALSE, ret |-> 0]}

Call(op, a, arg, out) == [op |-> op, agg |-> a, arg |-> arg, ok |-> out.ok, ret |-> out.ret]

\* An RSDPrinter::set that records the argument it was given.
RSDCallPushesArg(op, a, arg, vals, out) ==
    [values |-> IF op = "set" /\ out.ok THEN Append(vals, arg) ELSE vals,
     res |-> IF out.ok THEN OkVal(out.ret) ELSE ErrVal(a)]

\* impl Counter for RSDPrinter: attach, start and stop hand on the wrapped
\* counter's result; set is self.counter.set(value).and_then(|v| {
\* self.values.push(v); Ok(v) }).
RSDCall(op, a, arg, vals, out) ==
    [values |-> IF op = "set" /\ out.ok THEN Append(vals, out.ret) ELSE vals,
     res |-> IF out.ok THEN OkVal(out.ret) ELSE ErrVal(a)]

\* f64 values: a ratio of integers (exact for the magnitudes used here), the
\* square root of one, NaN or an infinity.
FNum(n, d) == [kind |-> "num", num |-> n, den |-> d]
FZero == FNum(0, 1)
FNaN == [kind |-> "nan", num |-> 0, den |-> 1]
FInf == [kind |-> "inf", num |-> 0, den |-> 1]
FDiv(n, d) == IF d = 0 THEN (IF n = 0 THEN FNaN ELSE FInf) ELSE FNum(n, d)
FEq(x, y) == x.kind = y.kind /\ x.num * y.den = y.num * x.den
FSqrt(x) ==
    IF x.kind # "num" THEN x
    ELSE IF x.num = 0 THEN FZero
    ELSE [kind |-> "sqrt", num |-> x.num, den |-> x.den]

\* self.values.iter().sum::<u64>(): the sum in the unsigned word, and whether
\* an addition overflowed it (a panic with overflow checks, a wrap without).
RECURSIVE SumU64(_)
SumU64(vals) ==
    IF vals = <<>> THEN [val |-> 0, ovf |-> FALSE]
    ELSE LET r == SumU64(Tail(vals))
         IN [val |-> (Head(vals) + r.val) % WordMod,
             ovf |-> r.ovf \/ Head(vals) + r.val >= WordMod]

\* RSDPrinter::mean
Mean(vals) == IF vals = <<>> THEN 0 ELSE SumU64(vals).val \div Len(vals)

\* The fold of RSDPrinter::variance: acc + (v - mean) * (v - mean).
RECURSIVE SqDiffSum(_, _)
SqDiffSum(vals, mean) ==
    IF vals = <<>> THEN 0
    ELSE (Head(vals) - mean) * (Head(vals) - mean) + SqDiffSum(Tail(vals), mean)

\* A variance whose guard lets a single observation through.
VarianceGuardOffByOne(vals) ==
    IF Len(vals) < 1 THEN FZero
    ELSE FDiv(SqDiffSum(vals, Mean(vals)), Len(vals) - 1)

\* RSDPrinter::variance
Variance(vals) ==
    IF Len(vals) < 2 THEN FZero
    ELSE FDiv(SqDiffSum(vals, Mean(vals)), Len(vals) - 1)

\* RSDPrinter::stddev
Stddev(vals) == FSqrt(Variance(vals))

\* RSDPrinter::rsd: (self.stddev() * 100) / self.mean() as f64, kept as the
\* square root of num / den times scale.
Rsd(vals) ==
    IF Len(vals) < 2 THEN FZero
    ELSE LET sd == Stddev(vals)
             m == Mean(vals)
         IN IF m = 0 THEN (IF sd = FZero THEN FNaN ELSE FInf)
            ELSE IF sd = FZero THEN FZero
            ELSE [kind |-> "rsd", num |-> sd.num, den |-> sd.den * m * m]

NoStats == [read |-> FALSE, panic |-> FALSE, mean |-> 0, variance |-> FZero,
            stddev |-> FZero, rsd |-> FZero]

\* value() (mean), variance(), stddev() and rsd() read from one RSDPrinter in
\* a build with or without overflow checks.
Stats(vals, build) ==
    IF build = "debug" /\ SumU64(vals).ovf
    THEN [NoStats EXCEPT !.read = TRUE, !.panic = TRUE]
    ELSE [read |-> TRUE, panic |-> FALSE, mean |-> Mean(vals),
          variance |-> Variance(vals), stddev |-> Stddev(vals), rsd |-> Rsd(vals)]

\* ------------------------------------------------------------------- state
VARIABLES
    pc,        \* the parent's position in Runner::run
    iter,      \* Runner::run calls begun so far
    ctr,       \* the counter the current loop of Runner::run is at
    socket,    \* Child.socket
    pid,       \* Child.pid
    pair,      \* <<parent_sock, child_sock>> of the current launch, or <<>>
    fds,       \* descriptors open in the parent
    chan,      \* the socket pair: the parent's endpoint, the release byte
    child,     \* the forked child of the current launch
    started,   \* per counter: started and not yet stopped
    runRes,    \* what Child::run returned in the current run
    waitStatus,\* what waitpid returned in the current run
    pending,   \* the value Runner::run returns once the Child is dropped
    log,       \* every call the parent made, in order
    runs,      \* per Runner::run call that returned: its result and wait status
    orphans,   \* children of earlier launches that the parent never reaped
    values,    \* per RSDPrinter: RSDPrinter.values, its observations
    calls,     \* the calls the wrapped counters received in the last operation
    last,      \* the last operation made on a wrapper and what it returned
    nsets,     \* per RSDPrinter: set calls of its wrapped counter that succeeded
    stats      \* the statistics last read from an RSDPrinter

runVars == <<pc, iter, ctr, socket, pid, pair, fds, chan, child, started,
             runRes, waitStatus, pending, log, runs, orphans>>

ctrVars == <<values, calls, last, nsets, stats>>

vars == <<runVars, ctrVars>>

NoChild == [st |-> "none", code |-> 0, execd |-> FALSE, sigterm |-> FALSE]
NoChan == [parentOpen |-> FALSE, byte |-> FALSE, written |-> FALSE]

\* One call made by the parent: the operation, the counter it was made on (0: none),
\* its argument, whether it succeeded, and the Runner::run call it belongs to.
Ev(o, i, a, k) == [op |-> o, ctr |-> i, arg |-> a, ok |-> k, run |-> iter]

Init ==
    /\ pc = "idle"
    /\ iter = 0
    /\ ctr = 1
    /\ socket = 0
    /\ pid = None
    /\ pair = <<>>
    /\ fds = StdFds
    /\ chan = NoChan
    /\ child = NoChild
    /\ started = [i \in Counters |-> FALSE]
    /\ runRes = None
    /\ waitStatus = NotWaited
    /\ pending = NoResult
    /\ log = <<>>
    /\ runs = <<>>
    /\ orphans = 0
    /\ values = [a \in Aggs |-> <<>>]
    /\ calls = <<>>
    /\ last = NoOp
    /\ nsets = [a \in Aggs |-> 0]
    /\ stats = NoStats

Alive(c) == c.st \in {"forked", "reading", "ready", "running"}
Unreaped(c) == c.st \notin {"none", "reaped"}

\* The value Runner::run hands back to its caller (a panic unwinds past it).
Return(res) ==
    IF res = Panic
    THEN /\ pc' = "panicked"
         /\ runs' = runs
    ELSE /\ pc' = "idle"
         /\ runs' = Append(runs, [result |-> res, status |-> waitStatus,
                                  childRun |-> runRes, execd |-> child.execd,
                                  released |-> chan.written, run |-> iter])

\* ---------------------------------------------------------------- the caller
\* A Runner::run that launches although the input holds a NUL byte.
RunnerRunIgnoresNul ==
    /\ pc = "idle"
    /\ iter < MaxIter
    /\ iter' = iter + 1
    /\ ctr' = 1
    /\ runRes' = None
    /\ waitStatus' = NotWaited
    /\ pending' = NoResult
    /\ \E nul \in BOOLEAN :
         IF nul
         THEN /\ pc' = "exec"
              /\ runs' = runs
              /\ log' = Append(log, [op |-> "run", ctr |-> 0, arg |-> 0, ok |-> ~nul, run |-> iter + 1])
         ELSE /\ pc' = "exec"
              /\ runs' = runs
              /\ log' = Append(log, [op |-> "run", ctr |-> 0, arg |-> 0, ok |-> ~nul, run |-> iter + 1])
    /\ UNCHANGED ctrVars
    /\ UNCHANGED <<socket, pid, pair, fds, chan, child, started, orphans>>

\* main.rs: one Runner::new(target).args(&args) and runner.run(&mut counters)
\* per iteration; Runner::run starts with Exec::new(target)?.args(..)?, which
\* fails on an embedded NUL before anything is created.
RunnerRun ==
    /\ pc = "idle"
    /\ iter < MaxIter
    /\ iter' = iter + 1
    /\ ctr' = 1
    /\ runRes' = None
    /\ waitStatus' = NotWaited
    /\ pending' = NoResult
    /\ \E nul \in BOOLEAN :
         IF nul
         THEN /\ pc' = "idle"
              /\ runs' = Append(runs, [result |-> FromNulError, status |-> NotWaited,
                                       childRun |-> None, execd |-> FALSE,
                                       released |-> FALSE, run |-> iter + 1])
              /\ log' = Append(log, [op |-> "run", ctr |-> 0, arg |-> 0, ok |-> ~nul, run |-> iter + 1])
         ELSE /\ pc' = "exec"
              /\ runs' = runs
              /\ log' = Append(log, [op |-> "run", ctr |-> 0, arg |-> 0, ok |-> ~nul, run |-> iter + 1])
    /\ UNCHANGED ctrVars
    /\ UNCHANGED <<socket, pid, pair, fds, chan, child, started, orphans>>

\* impl Drop for Child, first statement: close(self.socket).
DropCloseFds(open, sock) == open \ {sock}

\* Exec::exec: Child { pid: None, socket: 0 }, socketpair().unwrap(), fork().
\* A failed socketpair or fork panics; the unwinding drops c, whose socket is
\* still 0 and whose pid is still None.
ExecExec ==
    /\ pc = "exec"
    /\ LET p == LowestFree(fds)
           c == LowestFree(fds \cup {p})
       IN \E out \in {"ok", "socketpair_err", "fork_err"} :
            CASE out = "socketpair_err" ->
                   /\ fds' = DropCloseFds(fds, 0)
                   /\ log' = log \o <<Ev("socketpair", 0, 0, FALSE), Ev("close", 0, 0, TRUE)>>
                   /\ pc' = "panicked"
                   /\ socket' = 0 /\ pid' = None /\ pair' = <<>>
                   /\ chan' = NoChan
                   /\ orphans' = orphans + (IF Unreaped(child) THEN 1 ELSE 0)
                   /\ child' = NoChild
              [] out = "fork_err" ->
                   /\ fds' = DropCloseFds(fds \cup {p, c}, 0)
                   /\ log' = log \o <<Ev("socketpair", 0, p, TRUE), Ev("fork", 0, 0, FALSE), Ev("close", 0, 0, TRUE)>>
                   /\ pc' = "panicked"
                   /\ socket' = 0 /\ pid' = None /\ pair' = <<p, c>>
                   /\ chan' = [parentOpen |-> TRUE, byte |-> FALSE, written |-> FALSE]
                   /\ orphans' = orphans + (IF Unreaped(child) THEN 1 ELSE 0)
                   /\ child' = NoChild
              [] out = "ok" ->
                   LET k == ForkPid(iter) IN
                     /\ fds' = fds \cup {p, c}
                     /\ log' = log \o <<Ev("socketpair", 0, p, TRUE), Ev("fork", 0, k, TRUE)>>
                     /\ pc' = "launched"
                     /\ socket' = p /\ pid' = Some(k) /\ pair' = <<p, c>>
                     /\ chan' = [parentOpen |-> TRUE, byte |-> FALSE, written |-> FALSE]
                     /\ orphans' = orphans + (IF Unreaped(child) THEN 1 ELSE 0)
                     /\ child' = [st |-> "forked", code |-> 0, execd |-> FALSE,
                                  sigterm |-> FALSE]
    /\ UNCHANGED ctrVars
    /\ UNCHANGED <<iter, ctr, started, runRes, waitStatus, pending, runs>>

\* Runner::run: child.pid().ok_or_else(|| ExecError("failed to start child process"))?
RunnerPid ==
    /\ pc = "launched"
    /\ IF IsSome(ChildPid(pid))
       THEN /\ pc' = "attach"
            /\ pending' = pending
       ELSE /\ pc' = "drop_close"
            /\ pending' = ExecError("failed to start child process")
    /\ ctr' = 1
    /\ log' = Append(log, Ev("pid", 0, IF IsSome(ChildPid(pid)) THEN Unwrap(ChildPid(pid)) ELSE 0,
                            IsSome(ChildPid(pid))))
    /\ UNCHANGED ctrVars
    /\ UNCHANGED <<iter, socket, pid, pair, fds, chan, child, started, runRes,
                   waitStatus, runs, orphans>>

\* A loop that leaves the loop one counter early.
NextCtrOffByOne(i, after) ==
    IF i + 1 >= NumCounters THEN <<after, 1>> ELSE <<pc, i + 1>>

\* A Runner::run that releases the child right after the attach loop.
NextCtrEarlyRelease(i, after) ==
    IF i = NumCounters
    THEN <<IF after = "start" THEN "release" ELSE after, 1>>
    ELSE <<pc, i + 1>>

\* The position after the last counter of a loop, or the next counter.
NextCtr(i, after) ==
    IF i = NumCounters THEN <<after, 1>> ELSE <<pc, i + 1>>

\* An attach loop that drops the error of a failed attach and goes on.
AttachIgnoresError ==
    /\ pc = "attach"
    /\ \E ok \in BOOLEAN :
         log' = Append(log, Ev("attach", ctr, Unwrap(ChildPid(pid)), ok))
    /\ pc' = NextCtr(ctr, "start")[1]
    /\ ctr' = NextCtr(ctr, "start")[2]
    /\ UNCHANGED ctrVars
    /\ UNCHANGED <<iter, socket, pid, pair, fds, chan, child, started, runRes,
                   waitStatus, pending, runs, orphans>>

\* for counter in events.iter_mut() { counter.attach(pid)?; }
Attach ==
    /\ pc = "attach"
    /\ \E ok \in BOOLEAN :
         /\ log' = Append(log, Ev("attach", ctr, Unwrap(ChildPid(pid)), ok))
         /\ IF ok
            THEN /\ pc' = NextCtr(ctr, "start")[1]
                 /\ ctr' = NextCtr(ctr, "start")[2]
                 /\ pending' = pending
            ELSE /\ pc' = "drop_close"
                 /\ ctr' = ctr
                 /\ pending' = CounterError(ctr, "attach")
    /\ UNCHANGED ctrVars
    /\ UNCHANGED <<iter, socket, pid, pair, fds, chan, child, started, runRes,
                   waitStatus, runs, orphans>>

\* A start loop that returns the error (counter.start()?) instead of panicking.
StartReturnsError ==
    /\ pc = "start"
    /\ \E ok \in BOOLEAN :
         /\ log' = Append(log, Ev("start", ctr, 0, ok))
         /\ IF ok
            THEN /\ pc' = NextCtr(ctr, "release")[1]
                 /\ ctr' = NextCtr(ctr, "release")[2]
                 /\ started' = [started EXCEPT ![ctr] = TRUE]
                 /\ pending' = pending
            ELSE /\ pc' = "drop_close"
                 /\ ctr' = ctr
                 /\ started' = started
                 /\ pending' = CounterError(ctr, "start")
    /\ UNCHANGED ctrVars
    /\ UNCHANGED <<iter, socket, pid, pair, fds, chan, child, runRes,
                   waitStatus, runs, orphans>>

\* for counter in events.iter_mut() { counter.start().unwrap(); }
Start ==
    /\ pc = "start"
    /\ \E ok \in BOOLEAN :
         /\ log' = Append(log, Ev("start", ctr, 0, ok))
         /\ IF ok
            THEN /\ pc' = NextCtr(ctr, "release")[1]
                 /\ ctr' = NextCtr(ctr, "release")[2]
                 /\ started' = [started EXCEPT ![ctr] = TRUE]
                 /\ pending' = pending
            ELSE /\ pc' = "drop_close"
                 /\ ctr' = ctr
                 /\ started' = started
                 /\ pending' = Panic
    /\ UNCHANGED ctrVars
    /\ UNCHANGED <<iter, socket, pid, pair, fds, chan, child, runRes,
                   waitStatus, runs, orphans>>

\* Child::run, up to the write: self.pid?; write(self.socket, b"!").
ChildRunWrite ==
    /\ pc = "release"
    /\ IF pid = None
       THEN /\ pc' = "drop_close"
            /\ chan' = chan
            /\ log' = log
       ELSE /\ pc' = "wait"
            /\ chan' = IF Len(pair) = 2 /\ socket = pair[1] /\ chan.parentOpen
                       THEN [chan EXCEPT !.byte = TRUE, !.written = TRUE]
                       ELSE chan
            /\ log' = Append(log, Ev("write", 0, socket, TRUE))
    /\ runRes' = None
    /\ UNCHANGED ctrVars
    /\ UNCHANGED <<iter, ctr, socket, pid, pair, fds, child, started,
                   waitStatus, pending, runs, orphans>>

\* Child::run, the blocking waitpid(self.pid, None) and the match on its
\* result; the Child (self) is dropped as run returns. waitpid has no timeout
\* and no WNOHANG: it returns once the child has terminated, with its status
\* or with an error (ECHILD when the kernel has discarded the status); the
\* process installs no signal handler that could interrupt it earlier.
ChildRunWait ==
    /\ pc = "wait"
    /\ child.st \in {"exited", "signaled"}
    /\ \E ws \in {Exited(child.code), Signaled, WaitErr} :
         /\ ws.tag = "Exited" => child.st = "exited"
         /\ ws.tag = "Signaled" => child.st = "signaled"
         /\ waitStatus' = ws
         /\ runRes' = WaitResult(ws)
         /\ child' = IF ws.tag = "Err" THEN child ELSE [child EXCEPT !.st = "reaped"]
         /\ log' = Append(log, Ev("waitpid", 0, Unwrap(pid), ws.tag # "Err"))
    /\ pc' = "drop_close"
    /\ UNCHANGED ctrVars
    /\ UNCHANGED <<iter, ctr, socket, pid, pair, fds, chan, started,
                   pending, runs, orphans>>

\* impl Drop for Child: let _ = close(self.socket);
DropClose ==
    /\ pc = "drop_close"
    /\ fds' = DropCloseFds(fds, socket)
    /\ chan' = IF Len(pair) = 2 /\ socket = pair[1]
               THEN [chan EXCEPT !.parentOpen = FALSE]
               ELSE chan
    /\ log' = Append(log, Ev("close", 0, socket, socket \in fds))
    /\ pc' = "drop_kill"
    /\ UNCHANGED ctrVars
    /\ UNCHANGED <<iter, ctr, socket, pid, pair, child, started, runRes,
                   waitStatus, pending, runs, orphans>>

\* kill(pid, SIGTERM) as the process table sees it: the signal becomes pending
\* on a live process, has no effect on a zombie and fails (ESRCH) on a pid
\* that was reaped.
Kill(c) == IF Alive(c) THEN [c EXCEPT !.sigterm = TRUE] ELSE c

\* impl Drop for Child: if let Some(pid) = self.pid { kill(pid, SIGTERM) };
\* then Child::run returns to Runner::run, or Runner::run returns its error.
DropKill ==
    /\ pc = "drop_kill"
    /\ IF IsSome(pid)
       THEN /\ child' = Kill(child)
            /\ log' = Append(log, Ev("kill", 0, Unwrap(pid), child.st # "reaped"))
       ELSE /\ child' = child
            /\ log' = log
    /\ IF pending = NoResult
       THEN /\ pc' = "policy"
            /\ runs' = runs
       ELSE Return(pending)
    /\ UNCHANGED ctrVars
    /\ UNCHANGED <<iter, ctr, socket, pid, pair, fds, chan, started, runRes,
                   waitStatus, pending, orphans>>

\* match child.run() { Some(0) => Ok(()), Some(_) => Err("non-zero exit
\* status"), None => Err("failed to exec") }.map_err(..)?
RunnerPolicy ==
    /\ pc = "policy"
    /\ IF ExitPolicy(runRes) = OkUnit
       THEN /\ pc' = "stop"
            /\ runs' = runs
       ELSE Return(ExitPolicy(runRes))
    /\ ctr' = 1
    /\ UNCHANGED ctrVars
    /\ UNCHANGED <<iter, socket, pid, pair, fds, chan, child, started, runRes,
                   waitStatus, pending, log, orphans>>

\* A stop loop that drops the result of counter.stop().
StopIgnoresError ==
    /\ pc = "stop"
    /\ \E ok \in BOOLEAN :
         /\ log' = Append(log, Ev("stop", ctr, 0, ok))
         /\ pc' = NextCtr(ctr, "set")[1]
         /\ ctr' = NextCtr(ctr, "set")[2]
         /\ started' = [started EXCEPT ![ctr] = started[ctr] /\ ~ok]
    /\ UNCHANGED ctrVars
    /\ UNCHANGED <<iter, socket, pid, pair, fds, chan, child, runRes,
                   waitStatus, pending, runs, orphans>>

\* for counter in events.iter_mut() { counter.stop().unwrap(); }
Stop ==
    /\ pc = "stop"
    /\ \E ok \in BOOLEAN :
         /\ log' = Append(log, Ev("stop", ctr, 0, ok))
         /\ IF ok
            THEN /\ pc' = NextCtr(ctr, "set")[1]
                 /\ ctr' = NextCtr(ctr, "set")[2]
                 /\ started' = [started EXCEPT ![ctr] = FALSE]
            ELSE /\ pc' = "panicked"
                 /\ ctr' = ctr
                 /\ started' = started
    /\ UNCHANGED ctrVars
    /\ UNCHANGED <<iter, socket, pid, pair, fds, chan, child, runRes,
                   waitStatus, pending, runs, orphans>>

\* A reset loop that takes a non-zero magnitude returned by set for a failure.
SetChecksMagnitude ==
    /\ pc = "set"
    /\ \E out \in Outcomes("set") :
         /\ log' = Append(log, Ev("set", ctr, 0, out.ok))
         /\ last' = [op |-> "set", on |-> "runner", arg |-> 0,
                     res |-> IF out.ok THEN OkVal(out.ret) ELSE ErrVal(ctr)]
         /\ IF out.ok /\ out.ret = 0
            THEN IF NextCtr(ctr, "return")[1] = "return"
                 THEN /\ Return(OkUnit)
                      /\ ctr' = 1
                 ELSE /\ pc' = pc
                      /\ ctr' = NextCtr(ctr, "return")[2]
                      /\ runs' = runs
            ELSE /\ Return(CounterError(ctr, "set"))
                 /\ ctr' = ctr
    /\ UNCHANGED <<values, calls, nsets, stats>>
    /\ UNCHANGED <<iter, socket, pid, pair, fds, chan, child, started, runRes,
                   waitStatus, pending, orphans>>

\* for counter in events.iter_mut() { counter.set(0)?; }  Ok(()): the
\* magnitude a successful set hands back is dropped.
Set ==
    /\ pc = "set"
    /\ \E out \in Outcomes("set") :
         /\ log' = Append(log, Ev("set", ctr, 0, out.ok))
         /\ last' = [op |-> "set", on |-> "runner", arg |-> 0,
                     res |-> IF out.ok THEN OkVal(out.ret) ELSE ErrVal(ctr)]
         /\ IF out.ok
            THEN IF NextCtr(ctr, "return")[1] = "return"
                 THEN /\ Return(OkUnit)
                      /\ ctr' = 1
                 ELSE /\ pc' = pc
                      /\ ctr' = NextCtr(ctr, "return")[2]
                      /\ runs' = runs
            ELSE /\ Return(CounterError(ctr, "set"))
                 /\ ctr' = ctr
    /\ UNCHANGED <<values, calls, nsets, stats>>
    /\ UNCHANGED <<iter, socket, pid, pair, fds, chan, child, started, runRes,
                   waitStatus, pending, orphans>>

\* ----------------------------------------------------------------- the child
\* Exec::exec, ForkResult::Child: let _ = close(parent_sock);
ChildCloseParentSock ==
    /\ child.st = "forked"
    /\ child' = [child EXCEPT !.st = "reading"]
    /\ UNCHANGED ctrVars
    /\ UNCHANGED <<pc, iter, ctr, socket, pid, pair, fds, chan, started, runRes,
                   waitStatus, pending, log, runs, orphans>>

\* let _ = read(child_sock, &mut buf): returns with the byte, or with 0 (end
\* of stream) once every copy of the parent's endpoint is closed; the result
\* is ignored.
ChildRead ==
    /\ child.st = "reading"
    /\ chan.byte \/ ~chan.parentOpen
    /\ child' = [child EXCEPT !.st = "ready"]
    /\ chan' = [chan EXCEPT !.byte = FALSE]
    /\ UNCHANGED ctrVars
    /\ UNCHANGED <<pc, iter, ctr, socket, pid, pair, fds, started, runRes,
                   waitStatus, pending, log, runs, orphans>>

\* let _ = close(child_sock); let _ = execvp(..); process::exit(BAD_EXEC);
ChildExecvp ==
    /\ child.st = "ready"
    /\ \E found \in BOOLEAN :
         child' = IF found
                  THEN [child EXCEPT !.st = "running", !.execd = TRUE]
                  ELSE [child EXCEPT !.st = "exited", !.code = BAD_EXEC]
    /\ UNCHANGED ctrVars
    /\ UNCHANGED <<pc, iter, ctr, socket, pid, pair, fds, chan, started, runRes,
                   waitStatus, pending, log, runs, orphans>>

\* The executed target returns an exit code.
TargetExit ==
    /\ child.st = "running"
    /\ \E c \in ExitCodes : child' = [child EXCEPT !.st = "exited", !.code = c]
    /\ UNCHANGED ctrVars
    /\ UNCHANGED <<pc, iter, ctr, socket, pid, pair, fds, chan, started, runRes,
                   waitStatus, pending, log, runs, orphans>>

\* The executed target is killed by a signal of its own making.
TargetSignaled ==
    /\ child.st = "running"
    /\ child' = [child EXCEPT !.st = "signaled"]
    /\ UNCHANGED ctrVars
    /\ UNCHANGED <<pc, iter, ctr, socket, pid, pair, fds, chan, started, runRes,
                   waitStatus, pending, log, runs, orphans>>

\* A pending SIGTERM is delivered: the default action terminates the process;
\* a target that has been executed may have installed a handler and go on.
SigtermDelivered ==
    /\ child.sigterm
    /\ Alive(child)
    /\ \/ child' = [child EXCEPT !.st = "signaled", !.sigterm = FALSE]
       \/ /\ child.st = "running"
          /\ child' = [child EXCEPT !.sigterm = FALSE]
    /\ UNCHANGED ctrVars
    /\ UNCHANGED <<pc, iter, ctr, socket, pid, pair, fds, chan, started, runRes,
                   waitStatus, pending, log, runs, orphans>>

Next ==
    \/ RunnerRun
    \/ ExecExec
    \/ RunnerPid
    \/ Attach
    \/ Start
    \/ ChildRunWrite
    \/ ChildRunWait
    \/ DropClose
    \/ DropKill
    \/ RunnerPolicy
    \/ Stop
    \/ Set
    \/ ChildCloseParentSock
    \/ ChildRead
    \/ ChildExecvp
    \/ TargetExit
    \/ TargetSignaled
    \/ SigtermDelivered

Spec == Init /\ [][Next]_vars

\* The steps of the parent's single thread inside Runner::run, and the steps
\* of the forked child up to execvp.
ParentStep ==
    \/ ExecExec \/ RunnerPid \/ Attach \/ Start \/ ChildRunWrite \/ ChildRunWait
    \/ DropClose \/ DropKill \/ RunnerPolicy \/ Stop \/ Set

ChildStep == ChildCloseParentSock \/ ChildRead \/ ChildExecvp

\* The operating system schedules the parent and the child whenever they can
\* run; nothing is assumed of the caller or of the executed target.
SpecFair == Spec /\ WF_vars(ParentStep) /\ WF_vars(ChildStep)

\* ------------------------------------------------- operations on a wrapper
\* The observations and the count of successful inner sets after the calls cs.
RECURSIVE CountSets(_, _)
CountSets(cs, a) ==
    IF cs = <<>> THEN 0
    ELSE (IF Head(cs).op = "set" /\ Head(cs).agg = a /\ Head(cs).ok THEN 1 ELSE 0)
         + CountSets(Tail(cs), a)

\* RSDPrinter::set called directly on RSDPrinter 1, as Runner::run calls it on
\* a counter of its set.
RSDSet ==
    /\ Len(values[1]) < MaxObs
    /\ \E arg \in SetArgs, out \in Outcomes("set") :
         LET r == RSDCall("set", 1, arg, values[1], out)
             cs == <<Call("set", 1, arg, out)>>
         IN /\ values' = [values EXCEPT ![1] = r.values]
            /\ calls' = cs
            /\ last' = [op |-> "set", on |-> "rsd", arg |-> arg, res |-> r.res]
            /\ nsets' = [nsets EXCEPT ![1] = @ + CountSets(cs, 1)]
    /\ stats' = NoStats
    /\ UNCHANGED runVars

\* RSDPrinter::attach, start, stop called directly on RSDPrinter 1.
RSDForward ==
    /\ \E op \in {"attach", "start", "stop"}, out \in Outcomes("attach") :
         LET arg == IF op = "attach" THEN ForkPid(1) ELSE 0
             r == RSDCall(op, 1, arg, values[1], out)
         IN /\ values' = [values EXCEPT ![1] = r.values]
            /\ calls' = <<Call(op, 1, arg, out)>>
            /\ last' = [op |-> op, on |-> "rsd", arg |-> arg,
                        res |-> IF r.res.kind = "Ok" THEN OkVal(0) ELSE r.res]
    /\ stats' = NoStats
    /\ UNCHANGED <<nsets, runVars>>

\* Display for RSDPrinter / Printable::value: the statistics are read.
RSDStats ==
    /\ \E build \in {"debug", "release"} : stats' = Stats(values[1], build)
    /\ calls' = <<>>
    /\ last' = [op |-> "stats", on |-> "rsd", arg |-> 0, res |-> OkVal(0)]
    /\ UNCHANGED <<values, nsets, runVars>>

NextStats == RSDSet \/ RSDForward \/ RSDStats

SpecStats == Init /\ [][NextStats]_vars

\* A RelativePrinter that goes on to the next counter after a failure.
RECURSIVE RelForwardAll(_, _, _, _, _)
RelForwardAll(op, arg, outs, a, acc) ==
    IF a > NumAggs THEN acc
    ELSE LET r == RSDCall(op, a, arg, acc.vals[a], outs[a])
         IN RelForwardAll(op, arg, outs, a + 1,
                [vals |-> [acc.vals EXCEPT ![a] = r.values],
                 calls |-> Append(acc.calls, Call(op, a, arg, outs[a])),
                 res |-> IF acc.res.kind = "Err" THEN acc.res ELSE r.res])

\* impl Counter for RelativePrinter: self.absolute.op()?; for c in &mut
\* self.relatives { c.op()?; }: from RSDPrinter a on, until one fails.
RECURSIVE RelForward(_, _, _, _, _)
RelForward(op, arg, outs, a, acc) ==
    IF a > NumAggs THEN acc
    ELSE LET r == RSDCall(op, a, arg, acc.vals[a], outs[a])
             acc2 == [vals |-> [acc.vals EXCEPT ![a] = r.values],
                      calls |-> Append(acc.calls, Call(op, a, arg, outs[a])),
                      res |-> r.res]
         IN IF r.res.kind = "Err" THEN acc2
            ELSE RelForward(op, arg, outs, a + 1, acc2)

\* What the wrapped counters answer when the one at position k (0: none) fails;
\* the counter of RSDPrinter a hands back the magnitude 10 * a from set.
RelOutcomes(op, k) ==
    [a \in Aggs |-> [ok |-> a # k, ret |-> IF op = "set" /\ a # k THEN 10 * a ELSE 0]]

\* RelativePrinter::attach, start, stop, set; attach, start and stop end in
\* Ok(()), set in Ok(0).
RelOp ==
    /\ pc = "idle"
    /\ \E op \in {"attach", "start", "stop", "set"}, k \in 0..NumAggs, v \in SetArgs :
         LET arg == IF op = "attach" THEN ForkPid(1) ELSE IF op = "set" THEN v ELSE 0
             f == RelForward(op, arg, RelOutcomes(op, k), 1,
                             [vals |-> values, calls |-> <<>>, res |-> OkVal(0)])
         IN /\ op = "set" => \A a \in Aggs : Len(values[a]) < MaxObs
            /\ values' = f.vals
            /\ calls' = f.calls
            /\ last' = [op |-> op, on |-> "relative", arg |-> arg,
                        res |-> IF f.res.kind = "Err" THEN f.res ELSE OkVal(0)]
            /\ nsets' = [a \in Aggs |-> nsets[a] + CountSets(f.calls, a)]
    /\ stats' = NoStats
    /\ UNCHANGED runVars

\* The call of op on every counter of the set <<RelativePrinter>>, from the
\* state acc of an earlier loop of the same Runner::run.
LoopOver(op, arg, k, acc) ==
    LET f == RelForward(op, arg, RelOutcomes(op, k), 1,
                        [vals |-> acc.vals, calls |-> <<>>, res |-> OkVal(0)])
    IN [vals |-> f.vals, calls |-> acc.calls \o f.calls, res |-> f.res]

PanicVal(a) == [kind |-> "Panic", val |-> 0, src |-> a]

\* Runner::run as the counter set <<RelativePrinter>> sees it: attach with ?,
\* start with unwrap, the result of child.run(), stop with unwrap, set(0) with
\* ?. ka, ks, kp and kt name the wrapped counter that fails in each loop (0:
\* none), res is what child.run() returns.
RunOnCounters(ka, ks, res, kp, kt) ==
    LET a0 == [vals |-> values, calls |-> <<>>, res |-> OkVal(0)]
        a1 == LoopOver("attach", ForkPid(1), ka, a0)
        a2 == LoopOver("start", 0, ks, a1)
        a3 == LoopOver("stop", 0, kp, a2)
        a4 == LoopOver("set", 0, kt, a3)
    IN IF a1.res.kind = "Err" THEN a1
       ELSE IF a2.res.kind = "Err" THEN [a2 EXCEPT !.res = PanicVal(ks)]
       ELSE IF ExitPolicy(res) # OkUnit THEN [a2 EXCEPT !.res = ErrVal(0)]
       ELSE IF a3.res.kind = "Err" THEN [a3 EXCEPT !.res = PanicVal(kp)]
       ELSE IF a4.res.kind = "Err" THEN a4
       ELSE [a4 EXCEPT !.res = OkVal(0)]

\* One Runner::run over the counter set, as main.rs repeats it: at most one
\* loop meets a failing counter, the wrapped counter k; a panic ends the
\* process.
RunnerRunCounters ==
    /\ pc = "idle"
    /\ \A a \in Aggs : Len(values[a]) < MaxObs
    /\ \E loop \in {"none", "attach", "start", "stop", "set"}, k \in Aggs,
          res \in {Some(0), Some(1), None} :
         LET At(l) == IF loop = l THEN k ELSE 0
             f == RunOnCounters(At("attach"), At("start"), res, At("stop"), At("set"))
         IN /\ values' = f.vals
            /\ calls' = f.calls
            /\ last' = [op |-> "run", on |-> "runner", arg |-> 0, res |-> f.res]
            /\ nsets' = [a \in Aggs |-> nsets[a] + CountSets(f.calls, a)]
            /\ pc' = IF f.res.kind = "Panic" THEN "panicked" ELSE pc
    /\ stats' = NoStats
    /\ UNCHANGED <<iter, ctr, socket, pid, pair, fds, chan, child, started, runRes,
                   waitStatus, pending, log, runs, orphans>>

NextRelative == RelOp \/ RunnerRunCounters

SpecRelative == Init /\ [][NextRelative]_vars

\* ------------------------------------------------ reading the log and runs
Range(f) == {f[x] : x \in DOMAIN f}

\* The positions in the log of the calls of operation o on counter i in run k.
Pos(k, o, i) == {n \in DOMAIN log : log[n].run = k /\ log[n].op = o /\ log[n].ctr = i}

Before(A, B) == \A a \in A : \A b \in B : a < b

\* Run k is over: it returned or panicked.
RunOver(k) == iter > k \/ (iter = k /\ pc \in {"idle", "panicked"})

OkRuns == {r \in Range(runs) : r.result = OkUnit}

\* --------------------------------------------------------------------- C1
\* C1: the child executes the target only after the parent has written the
\* release byte in Child::run; a child whose handle is dropped without run
\* never executes the target.
C1_GatedRelease == child.execd => chan.written

\* --------------------------------------------------------------------- C2
\* C2: in a Runner::run call that succeeds every counter is attached, in
\* configured order, before any counter is started; every counter is started
\* before the release byte is written; the parent's waitpid returns the
\* child's exit before any counter is stopped; every counter is stopped
\* before any counter receives set(0).
C2_PhaseOrder ==
    \A r \in OkRuns :
      LET k == r.run IN
        /\ Pos(k, "write", 0) # {} /\ Pos(k, "waitpid", 0) # {}
        /\ Before(Pos(k, "write", 0), Pos(k, "waitpid", 0))
        /\ r.status = Exited(0)
        /\ \A i \in Counters :
             /\ Pos(k, "attach", i) # {} /\ Pos(k, "start", i) # {}
             /\ Pos(k, "stop", i) # {} /\ Pos(k, "set", i) # {}
             /\ Before(Pos(k, "start", i), Pos(k, "write", 0))
             /\ Before(Pos(k, "waitpid", 0), Pos(k, "stop", i))
             /\ \A n \in Pos(k, "set", i) : log[n].arg = 0
             /\ \A j \in Counters :
                  /\ Before(Pos(k, "attach", i), Pos(k, "start", j))
                  /\ Before(Pos(k, "stop", i), Pos(k, "set", j))
                  /\ i < j => Before(Pos(k, "attach", i), Pos(k, "attach", j))

C2_Witness == \E r \in OkRuns : r.released /\ r.status = Exited(0)

\* --------------------------------------------------------------------- C3
\* The calls counter i received, in order, each with the run it belongs to.
CtrOps(i) ==
    LET sel == SelectSeq(log, LAMBDA e : e.ctr = i)
    IN [n \in DOMAIN sel |-> <<sel[n].op, sel[n].run>>]

Phase == <<"attach", "start", "stop", "set">>

\* attach, start, stop, set of run 1, then of run 2, ... up to run n.
Cycle(n) == [m \in 1..(4 * n) |-> <<Phase[((m - 1) % 4) + 1], ((m - 1) \div 4) + 1>>]

IsPrefix(a, b) == Len(a) <= Len(b) /\ \A n \in DOMAIN a : a[n] = b[n]

AllOk == \A r \in Range(runs) : r.result = OkUnit

\* C3: while every Runner::run call so far has succeeded, each counter has
\* received exactly one attach, one start, one stop and one set per iteration,
\* in that order, all four before the next iteration's attach.
C3_OncePerIteration ==
    AllOk =>
      \A i \in Counters :
        /\ IsPrefix(Cycle(Len(runs)), CtrOps(i))
        /\ IsPrefix(CtrOps(i), Cycle(MaxIter))
        /\ pc = "idle" => CtrOps(i) = Cycle(Len(runs))

C3_Witness == AllOk /\ pc = "idle" /\ Len(runs) >= 2

\* --------------------------------------------------------------------- C4
RunFailure == {ExecError("non-zero exit status"), ExecError("failed to exec")}

\* C4: when the released child exits with a non-zero code or could not be
\* executed, Runner::run stops every counter it started before it returns the
\* failure: no counter is left started when run returns.
C4_AlwaysStop ==
    (pc = "idle" /\ runs # <<>> /\ runs[Len(runs)].released
       /\ runs[Len(runs)].status.tag = "Exited"
       /\ runs[Len(runs)].result \in RunFailure)
    => \A i \in Counters : ~started[i]

\* --------------------------------------------------------------------- C5
FailedAttach == {n \in DOMAIN log : log[n].op = "attach" /\ ~log[n].ok}

\* C5: if attach fails for a counter, Runner::run returns that counter's
\* error, the counters after it receive no attach, and no counter receives
\* start, stop or set in that run.
C5_AttachFailure ==
    \A n \in FailedAttach :
      LET k == log[n].run
          j == log[n].ctr
      IN /\ RunOver(k) =>
              \E r \in Range(runs) : r.run = k /\ r.result = CounterError(j, "attach")
         /\ \A i \in Counters :
              /\ i > j => Pos(k, "attach", i) = {}
              /\ Pos(k, "start", i) = {} /\ Pos(k, "stop", i) = {} /\ Pos(k, "set", i) = {}

C5_Witness ==
    \E n \in FailedAttach : log[n].ctr < NumCounters /\ RunOver(log[n].run)

\* --------------------------------------------------------------------- C6
Waited == waitStatus # NotWaited

\* C6: Child::run returns None when the target could not be executed, returns
\* Some(code) when the child ran the target and exited normally with a code,
\* and returns None for every other wait outcome (signaled, wait error).
C6_ChildRunResult ==
    Waited =>
      /\ (waitStatus.tag = "Exited" /\ ~child.execd) => runRes = None
      /\ (waitStatus.tag = "Exited" /\ child.execd) => runRes = Some(waitStatus.code)
      /\ waitStatus.tag \in {"Signaled", "Err"} => runRes = None

\* --------------------------------------------------------------------- C7
\* C7: for every exit code with which an executed target exits, the result of
\* Child::run differs from the result it gives when execvp failed.
C7_Distinguishable ==
    (Waited /\ waitStatus.tag = "Exited" /\ child.execd)
    => runRes # WaitResult(Exited(BAD_EXEC))

\* --------------------------------------------------------------------- C8
\* C8: Runner::run returns Ok only if the child exited with code 0; a target
\* that ran and exited with a non-zero code gives ExecError("non-zero exit status");
\* a Child::run that returned None gives ExecError("failed to exec"); the two
\* failures differ.
C8_ExitPolicy ==
    /\ ExecError("non-zero exit status") # ExecError("failed to exec")
    /\ \A r \in Range(runs) :
         /\ r.result = OkUnit => r.status = Exited(0)
         /\ (r.released /\ r.execd /\ r.status.tag = "Exited" /\ r.status.code # 0)
              => r.result = ExecError("non-zero exit status")
         /\ (r.released /\ r.status # NotWaited /\ r.childRun = None)
              => r.result = ExecError("failed to exec")

\* --------------------------------------------------------------------- C9
\* The runs that returned after the executed target exited with a non-zero code.
NonZeroRuns ==
    {r \in Range(runs) :
       r.released /\ r.execd /\ r.status.tag = "Exited" /\ r.status.code # 0}

\* C9 as stated: the failure reports the numeric code, so that runs ending
\* with two different non-zero codes return distinguishable errors.
C9_ReportsCode ==
    \A r1, r2 \in NonZeroRuns : r1.status.code # r2.status.code => r1.result # r2.result

\* C9, amended: the failure does not carry the exit code. It is
\* ExecError("non-zero exit status") for every non-zero code but BAD_EXEC and
\* ExecError("failed to exec") for BAD_EXEC, so runs ending with two different
\* non-zero codes, neither of them BAD_EXEC, return equal errors.
C9_FixedMessage ==
    /\ \A r \in NonZeroRuns :
         r.result = IF r.status.code = BAD_EXEC
                    THEN ExecError("failed to exec")
                    ELSE ExecError("non-zero exit status")
    /\ \A r1, r2 \in NonZeroRuns :
         (r1.status.code # BAD_EXEC /\ r2.status.code # BAD_EXEC) => r1.result = r2.result

C9_Witness ==
    \E r1, r2 \in NonZeroRuns :
      /\ r1.status.code # r2.status.code
      /\ r1.status.code # BAD_EXEC /\ r2.status.code # BAD_EXEC

\* -------------------------------------------------------------------- C10
\* The fork of the current launch succeeded.
ForkSucceeded == \E n \in DOMAIN log : log[n].op = "fork" /\ log[n].run = iter /\ log[n].ok

ForkedPid == log[CHOOSE n \in DOMAIN log : log[n].op = "fork" /\ log[n].run = iter].arg

\* C10: Child::pid() is Some exactly when fork succeeded, and then it is the
\* forked process id; it is Some in the state in which Exec::exec returns,
\* where the release byte is not yet written and the child has not executed
\* the target.
C10_PidObservable ==
    /\ pc \notin {"idle", "exec"} =>
         /\ IsSome(ChildPid(pid)) <=> ForkSucceeded
         /\ ForkSucceeded => ChildPid(pid) = Some(ForkedPid)
    /\ pc = "launched" =>
         /\ IsSome(ChildPid(pid))
         /\ ~chan.written /\ ~chan.byte
         /\ ~child.execd /\ child.st \in {"forked", "reading"}

C10_Witness == pc = "launched" /\ pid = Some(10) /\ child.st = "reading"

\* -------------------------------------------------------------------- C11
\* The launch of run k produced a handle that was dropped without Child::run.
DroppedUnreleased(k) ==
    /\ RunOver(k)
    /\ \E n \in Pos(k, "fork", 0) : log[n].ok
    /\ Pos(k, "write", 0) = {}

\* C11: dropping a Child that was never released sends SIGTERM to its pid and
\* leaves no endpoint of that launch's channel open in the parent: after any
\* number of launch-then-drop cycles the parent has as many open descriptors
\* as before the first launch.
C11_DropLeaksNothing ==
    (iter >= 1 /\ \A k \in 1..iter : DroppedUnreleased(k))
    => /\ \A k \in 1..iter :
            \E n \in Pos(k, "kill", 0) : log[n].arg = ForkPid(k)
       /\ Cardinality(fds) = Cardinality(StdFds)

\* -------------------------------------------------------------------- C12
\* C12: RSDPrinter::set(v) forwards set(v) to the wrapped counter; on success
\* it appends exactly the returned magnitude to the end of its observations
\* and returns it; on failure the observations are unchanged and the error is
\* returned. No operation removes or reorders observations, and their number
\* is the number of set calls that succeeded.
C12_SetAppends ==
    /\ [][(last'.op = "set" /\ last'.on = "rsd") =>
            /\ Len(calls') = 1
            /\ calls'[1].op = "set" /\ calls'[1].agg = 1 /\ calls'[1].arg = last'.arg
            /\ calls'[1].ok =>
                 /\ values'[1] = Append(values[1], calls'[1].ret)
                 /\ last'.res = OkVal(calls'[1].ret)
            /\ ~calls'[1].ok =>
                 /\ values'[1] = values[1]
                 /\ last'.res = ErrVal(1)]_vars
    /\ [][\A a \in Aggs : IsPrefix(values[a], values'[a])]_vars
    /\ [](Len(values[1]) = nsets[1])

C12_Witness ==
    /\ last.op = "set" /\ last.res.kind = "Err"
    /\ Len(values[1]) >= 2 /\ values[1][1] # values[1][2]

\* -------------------------------------------------------------------- C13
RECURSIVE TrueSum(_)
TrueSum(vals) == IF vals = <<>> THEN 0 ELSE Head(vals) + TrueSum(Tail(vals))

\* floor(sum / n) on the mathematical sum, 0 for no observation.
TrueMean(vals) == IF vals = <<>> THEN 0 ELSE TrueSum(vals) \div Len(vals)

\* C13: for every observation sequence of unsigned words, mean (and value())
\* is floor((x_1 + ... + x_n) / n) on the mathematical sum, and 0 for n = 0.
C13_MeanIsFloorOfSum ==
    stats.read => (~stats.panic /\ stats.mean = TrueMean(values[1]))

\* -------------------------------------------------------------------- C14
\* C14 as stated: with zero or exactly one observation mean = 0, variance =
\* 0.0, stddev = 0.0 and rsd = 0.0, and nothing divides by zero.
C14_AllZeroBelowTwo ==
    (stats.read /\ Len(values[1]) <= 1) =>
      /\ ~stats.panic
      /\ stats.mean = 0
      /\ stats.variance = FZero /\ stats.stddev = FZero /\ stats.rsd = FZero

\* C14, amended: with zero observations mean = 0, with exactly one observation
\* mean is that observation; in both cases variance = 0.0, stddev = 0.0 and
\* rsd = 0.0, and nothing divides by zero.
C14_BelowTwo ==
    (stats.read /\ Len(values[1]) <= 1) =>
      /\ ~stats.panic
      /\ stats.mean = IF values[1] = <<>> THEN 0 ELSE values[1][1]
      /\ stats.variance = FZero /\ stats.stddev = FZero /\ stats.rsd = FZero

C14_Witness == stats.read /\ Len(values[1]) = 1 /\ values[1][1] # 0

\* -------------------------------------------------------------------- C15
\* C15: for n >= 2 observations variance is sum((x_i - mean)^2) / (n - 1),
\* mean being the truncated integer mean; [0,10,20,30,40] gives 250.
C15_SampleVariance ==
    (stats.read /\ Len(values[1]) >= 2) =>
      /\ ~stats.panic
      /\ FEq(stats.variance,
             FNum(SqDiffSum(values[1], TrueMean(values[1])), Len(values[1]) - 1))
      /\ values[1] = <<0, 10, 20, 30, 40>> => FEq(stats.variance, FNum(250, 1))

\* -------------------------------------------------------------------- C16
\* C16: RelativePrinter attach, start, stop and set forward the call first to
\* the baseline and then to every relative in list order; the first failure
\* is returned and no later relative receives the call.
C16_ForwardInOrder ==
    last.on = "relative" =>
      LET n == Len(calls)
      IN /\ n >= 1 /\ n <= NumAggs
         /\ \A i \in 1..n :
              calls[i].agg = i /\ calls[i].op = last.op /\ calls[i].arg = last.arg
         /\ \A i \in 1..(n - 1) : calls[i].ok
         /\ calls[n].ok => (n = NumAggs /\ last.res.kind = "Ok")
         /\ ~calls[n].ok => last.res = ErrVal(n)

C16_Witness ==
    /\ last.on = "relative" /\ last.op = "set"
    /\ Len(calls) = 2 /\ ~calls[2].ok /\ NumAggs > 2

\* -------------------------------------------------------------------- C17
FailedOp(o) == {n \in DOMAIN log : log[n].op = o /\ ~log[n].ok}

\* The events of run k logged after position n.
Later(k, n) == {m \in DOMAIN log : m > n /\ log[m].run = k}

\* C17: a counter start or stop failure ends the run there: after a failed
\* start no counter is started later and the release byte is never written;
\* after a failed stop no counter is stopped later and no counter receives
\* set; in both cases Runner::run does not return Ok.
C17_StartStopFatal ==
    /\ \A n \in FailedOp("start") :
         /\ \A m \in Later(log[n].run, n) : log[m].op \notin {"start", "write"}
         /\ Pos(log[n].run, "write", 0) = {}
         /\ \A r \in Range(runs) : r.run = log[n].run => r.result # OkUnit
    /\ \A n \in FailedOp("stop") :
         /\ \A m \in Later(log[n].run, n) : log[m].op \notin {"stop", "set"}
         /\ \A i \in Counters : Pos(log[n].run, "set", i) = {}
         /\ \A r \in Range(runs) : r.run = log[n].run => r.result # OkUnit

C17_Witness ==
    \E n \in FailedOp("start") :
      /\ log[n].ctr < NumCounters /\ RunOver(log[n].run)
      /\ \A i \in Counters : i > log[n].ctr => Pos(log[n].run, "attach", i) # {}

NulRuns == {log[n].run : n \in FailedOp("run")}

\* C19: with an embedded NUL byte in the target path or an argument,
\* Runner::run returns ExecError("input contained unexpected null character");
\* no channel is created, no process is forked and no counter receives attach,
\* start, stop or set.
C19_NulRejected ==
    \A k \in NulRuns :
      /\ \E r \in Range(runs) :
           /\ r.run = k
           /\ r.result = ExecError("input contained unexpected null character")
      /\ \A m \in DOMAIN log : log[m].run = k => log[m].op = "run"

C19_Witness ==
    /\ 2 \in NulRuns /\ 1 \notin NulRuns
    /\ Pos(1, "fork", 0) # {}

\* -------------------------------------------------------------------- C20
\* The launches that failed in socketpair or fork.
FailedLaunch == FailedOp("socketpair") \cup FailedOp("fork")

\* C20: if fork fails or the channel cannot be created, Runner::run returns
\* the launch error to its caller, no Child with a pid is produced and no
\* counter receives any call.
C20_LaunchErrorReturned ==
    \A n \in FailedLaunch :
      /\ pid = None
      /\ \A m \in Later(log[n].run, n) : log[m].op \notin {"attach", "start", "stop", "set"}
      /\ RunOver(log[n].run) =>
           \E r \in Range(runs) :
             r.run = log[n].run /\ r.result = ExecError("failed to start child process")

\* -------------------------------------------------------------------- C21
\* The set events of run k, in log order.
SetEvents(k) == SelectSeq(log, LAMBDA e : e.run = k /\ e.op = "set")

\* C21: the reset step is reached only after the target exited 0; it calls
\* set(0) on the counters in configured order; when every set succeeds each
\* counter has received set(0) exactly once and Runner::run returns Ok,
\* whatever magnitude the sets returned; when a set fails Runner::run returns
\* that counter's error and the counters after it receive no set in that run.
C21_ResetStep ==
    /\ \A k \in 1..iter :
         LET ss == SetEvents(k)
         IN /\ \A m \in DOMAIN ss : ss[m].ctr = m /\ ss[m].arg = 0
            /\ \A m \in 1..(Len(ss) - 1) : ss[m].ok
            /\ ss # <<>> =>
                 /\ \E n \in Pos(k, "waitpid", 0) : log[n].ok
                 /\ IF k = iter THEN waitStatus = Exited(0) ELSE TRUE
            /\ (RunOver(k) /\ ss # <<>>) =>
                 IF ss[Len(ss)].ok
                 THEN /\ Len(ss) = NumCounters
                      /\ \E r \in Range(runs) : r.run = k /\ r.result = OkUnit
                 ELSE \E r \in Range(runs) :
                        r.run = k /\ r.result = CounterError(Len(ss), "set")
    /\ \A r \in OkRuns : Len(SetEvents(r.run)) = NumCounters
    /\ (pc = "set" /\ ctr > 1) => (last.op = "set" /\ last.res.kind = "Ok")

C21_Witness ==
    /\ pc = "idle" /\ iter = 2
    /\ runs[1].result = CounterError(1, "set") /\ Len(SetEvents(1)) = 1
    /\ runs[2].result = OkUnit
    /\ last.op = "set" /\ last.on = "runner" /\ last.res.kind = "Ok" /\ last.res.val # 0

CounterOps == {"attach", "start", "stop", "set"}

CountersOk == \A n \in DOMAIN log : log[n].op \in CounterOps => log[n].ok

Terminated(c) == c.st \in {"exited", "signaled", "reaped"}

\* The parent can always take its next step except in waitpid, the child
\* except in read; waitpid returns only for a terminated child, read only
\* with the byte or at the end of the stream.
TwoBlockingPoints ==
    /\ pc \notin {"idle", "panicked", "wait"} => ENABLED ParentStep
    /\ pc = "wait" => (ENABLED ParentStep <=> Terminated(child))
    /\ child.st \in {"forked", "ready"} => ENABLED ChildStep
    /\ child.st = "reading" => (ENABLED ChildStep <=> (chan.byte \/ ~chan.parentOpen))

\* C23: under fair scheduling, if every counter operation succeeds and the
\* executed target eventually exits, a started Runner::run eventually returns;
\* it can block only in the child's read of the release byte and in the
\* parent's wait for the child, and while the executed target has not
\* terminated the wait does not return.
C23_RunReturns ==
    /\ ([]CountersOk /\ (child.st = "running" ~> child.st # "running"))
          => (pc = "exec" ~> pc = "idle")
    /\ []TwoBlockingPoints

\* -------------------------------------------------------------------- C24
\* The positions in the log where a waitpid of run k returned a status, which
\* is where the child of that run was reaped.
Reaped(k) == {n \in Pos(k, "waitpid", 0) : log[n].ok}

\* C24: SIGTERM is sent to the child's pid only when the Child is dropped
\* without having been released and waited: no kill follows the write of the
\* release byte, and once waitpid has reaped the child no signal is sent to
\* its pid.
C24_NoSignalAfterReap ==
    \A k \in 1..iter :
      /\ Before(Pos(k, "kill", 0), Pos(k, "write", 0))
      /\ Before(Pos(k, "kill", 0), Reaped(k))

\* -------------------------------------------------------------------- C25
\* C25: when a run has ended, on whichever path, the child it forked has
\* terminated or has been sent SIGTERM, and it has been reaped by the parent:
\* no unreaped child of this or of an earlier run remains.
C25_NoChildSurvives ==
    (RunOver(iter) /\ \E n \in Pos(iter, "fork", 0) : log[n].ok) =>
      /\ Terminated(child) \/ Pos(iter, "kill", 0) # {}
      /\ child.st = "reaped"
      /\ orphans = 0

\* -------------------------------------------------------------------- C26
\* C26: after any sequence of Runner::run calls over a fixed counter set,
\* successful or failed, all RSDPrinters of the set, the absolute and the
\* relatives of a RelativePrinter included, hold equally many observations.
C26_EqualLengths ==
    last.op = "run" => \A a, b \in Aggs : Len(values[a]) = Len(values[b])
====
